---- MODULE Spec2Model ----
(***************************************************************************)
(* A model of FuzzyProbabilitiesCalculator (src/fuzzy_calculator.py) and   *)
(* of the validation helpers of src/utils.py.                              *)
(*                                                                         *)
(* Numbers.  The program computes with float64 arrays.  The model keeps    *)
(* every number as an exact fixed-point numerator:                         *)
(*   - a membership value m is the integer m * MemberUnit;                 *)
(*   - an input probability p is the integer p * ProbUnit;                 *)
(*   - the stored distribution is [num, den]: value i is num[i] / den, so  *)
(*     that the division of normalize_probabilities is exact;              *)
(*   - a probability returned by np.dot is [num, den].                     *)
(* Rounding of float64 is not modelled.  np.isclose keeps its tolerances.  *)
(*                                                                         *)
(* skfuzzy (fuzzy_add, fuzzy_and, fuzzy_not) is a library the program      *)
(* calls; it is modelled by what its functions compute on the arguments    *)
(* the program passes.                                                     *)
(*                                                                         *)
(* Python sequences are 0-based, TLA+ sequences 1-based: Python's s[i] is  *)
(* s[i + 1] here.                                                          *)
(***************************************************************************)
EXTENDS Integers, Sequences, FiniteSets, TLC

VARIABLES
    constructed,      \* TRUE once __init__ has returned without raising
    universe,         \* self._universe
    probabilities,    \* self._probabilities, [num |-> <<..>>, den |-> d]
    events,           \* self._events
    combined_events,  \* self._combined_events
    last,             \* the last call: [op, arg, ok, err, result]
    registered        \* history: the add_event calls, [membership, index]

vars == <<constructed, universe, probabilities, events, combined_events,
          last, registered>>

----------------------------------------------------------------------------
(* Units and library constants *)

Scale(digits) == 10 ^ digits

\* 1.0 as a probability numerator (six decimal digits are kept).
ProbUnit == Scale(6)

\* 1.0 as a membership numerator (one decimal digit is kept).
MemberUnit == Scale(1)

\* numpy.isclose defaults: rtol = 1e-05, atol = 1e-08, as 1/rtol and 1/atol.
RtolInv == Scale(5)
AtolInv == Scale(8)

----------------------------------------------------------------------------
(* numpy / builtins *)

Abs(n) == IF n < 0 THEN -n ELSE n

SetMin(S) == CHOOSE m \in S : \A n \in S : m <= n

SetMax(S) == CHOOSE m \in S : \A n \in S : m >= n

fmin(a, b) == IF a <= b THEN a ELSE b

RECURSIVE np_sum(_)
np_sum(s) == IF s = <<>> THEN 0 ELSE Head(s) + np_sum(Tail(s))

RECURSIVE SortedSeq(_)
SortedSeq(S) ==
    IF S = {} THEN <<>>
    ELSE LET m == SetMin(S) IN <<m>> \o SortedSeq(S \ {m})

\* np.unique(a): the sorted distinct elements of a.
np_unique(a) == SortedSeq({a[i] : i \in DOMAIN a})

\* np.isclose(a/unit, b/unit): |a - b| <= atol + rtol * |b|, that is
\* |a - b| * AtolInv <= unit + |b| * (AtolInv / RtolInv); the left side is
\* an integer, so the right side may be floored.
np_isclose(a, b, unit) ==
    Abs(a - b) <= (unit + Abs(b) * (AtolInv \div RtolInv)) \div AtolInv

RECURSIVE trim_front(_)
trim_front(s) ==
    IF s # <<>> /\ Head(s) = 0 THEN trim_front(Tail(s)) ELSE s

RECURSIVE trim_back(_)
trim_back(s) ==
    IF s # <<>> /\ s[Len(s)] = 0 THEN trim_back(SubSeq(s, 1, Len(s) - 1))
    ELSE s

\* np.trim_zeros(a), trim='fb': leading and trailing zeros are dropped.
np_trim_zeros(a) == trim_back(trim_front(a))

\* np.dot(a, b) of two 1-d arrays of one length.
RECURSIVE np_dot(_, _)
np_dot(a, b) ==
    IF a = <<>> THEN 0 ELSE Head(a) * Head(b) + np_dot(Tail(a), Tail(b))

\* math.comb(n, k) for 0 <= k, 0 <= n.
RECURSIVE math_comb(_, _)
math_comb(n, k) ==
    IF k = 0 THEN 1
    ELSE IF n = 0 THEN 0
    ELSE math_comb(n - 1, k - 1) + math_comb(n - 1, k)

----------------------------------------------------------------------------
(* src/utils.py *)

universe_diverse(u) == Len(u) = Len(np_unique(u))

probabilities_valid(p) ==
    /\ \A i \in DOMAIN p : p[i] >= 0
    /\ \A i \in DOMAIN p : p[i] <= ProbUnit
    /\ ~np_isclose(np_sum(p), 0, ProbUnit)

probabilities_normalized(p) == np_isclose(np_sum(p), ProbUnit, ProbUnit)

\* probabilities / total: value i becomes p[i] / total.
normalize_probabilities(p) == [num |-> p, den |-> np_sum(p)]

----------------------------------------------------------------------------
(* Outcomes of a call *)

Raise(msg) == [ok |-> FALSE, err |-> msg, result |-> <<>>]

Return(value) == [ok |-> TRUE, err |-> "", result |-> value]

\* No argument, or no returned value.
NoValue == [none |-> TRUE]

ErrUniverse == "Every elementary event should be different"
ErrProbabilities ==
    "All probabilities should be in [0,1] interval and their sum cannot be zero"
ErrNormalized == "Sum of all probabilities values should be equal to 1"
ErrNoIndex == "At least one event index must be provided"
ErrIndex == "IndexError"
ErrShapes == "shapes not aligned"

----------------------------------------------------------------------------
(* FuzzyProbabilitiesCalculator.__init__ *)

\* __init__ with the first two checks in the other order.
init_distribution_first(u, p, normalize) ==
    IF ~probabilities_valid(p) THEN Raise(ErrProbabilities)
    ELSE IF ~universe_diverse(u) THEN Raise(ErrUniverse)
    ELSE IF ~probabilities_normalized(p) THEN
        IF ~normalize THEN Raise(ErrNormalized)
        ELSE Return(normalize_probabilities(p))
    ELSE Return([num |-> p, den |-> ProbUnit])

FuzzyProbabilitiesCalculator(u, p, normalize) ==
    IF ~universe_diverse(u) THEN Raise(ErrUniverse)
    ELSE IF ~probabilities_valid(p) THEN Raise(ErrProbabilities)
    ELSE IF ~probabilities_normalized(p) THEN
        IF ~normalize THEN Raise(ErrNormalized)
        ELSE Return(normalize_probabilities(p))
    ELSE Return([num |-> p, den |-> ProbUnit])

\* The fields of an object that does not exist (yet).
NoDistribution == [num |-> <<>>, den |-> ProbUnit]

Init ==
    /\ constructed = FALSE
    /\ universe = <<>>
    /\ probabilities = NoDistribution
    /\ events = <<>>
    /\ combined_events = <<>>
    /\ last = [op |-> "none", arg |-> NoValue, ok |-> TRUE, err |-> "",
               result |-> NoValue]
    /\ registered = <<>>

\* The record of a call.  Arguments and results are kept as records, the
\* field naming the kind of value: an index, a membership vector (mf), or
\* the record the operation itself returns.
Boxed(op, value) ==
    CASE op = "add_event" -> [index |-> value]
      [] op \in {"events_sum", "events_intersection"} -> [mf |-> value]
      [] OTHER -> value

Called(op, arg, outcome) ==
    [op |-> op, arg |-> arg, ok |-> outcome.ok, err |-> outcome.err,
     result |-> IF outcome.ok THEN Boxed(op, outcome.result) ELSE NoValue]

\* The constructor call of a run: the first call, made once.  When it
\* raises there is no object, and nothing can be called.
Construct(Universes, Distributions) ==
    \E u \in Universes, p \in Distributions, normalize \in BOOLEAN :
        LET r == FuzzyProbabilitiesCalculator(u, p, normalize) IN
        /\ last.op = "none"
        /\ constructed' = r.ok
        /\ probabilities' = IF r.ok THEN r.result ELSE probabilities
        /\ universe' = IF r.ok THEN u ELSE universe
        /\ events' = <<>>
        /\ combined_events' = <<>>
        /\ last' = Called("init",
                          [universe |-> u, probabilities |-> p,
                           normalize |-> normalize], r)
        /\ UNCHANGED registered

----------------------------------------------------------------------------
(* FuzzyProbabilitiesCalculator._normalized_event *)

\* np.pad(event, (0, size_diff), constant_values=0.0)
np_pad(event, size_diff) == event \o [i \in 1..size_diff |-> 0]

\* event[:size_diff] for size_diff < 0: the last -size_diff elements go.
slice_to(event, size_diff) == SubSeq(event, 1, Len(event) + size_diff)

normalized_event(u, event) ==
    LET size_diff == Len(u) - Len(event) IN
    IF size_diff > 0 THEN np_pad(event, size_diff)
    ELSE IF size_diff < 0 THEN slice_to(event, size_diff)
    ELSE event

----------------------------------------------------------------------------
(* FuzzyProbabilitiesCalculator.add_event *)

\* add_event with the new event inserted before the stored ones.
add_event_front(u, evs, membership) ==
    LET normalized == normalized_event(u, membership)
        inserted == <<normalized>> \o evs
    IN [events |-> inserted, index |-> Len(inserted) - 1]

\* The new self._events and the returned index.
add_event(u, evs, membership) ==
    LET normalized == normalized_event(u, membership)
        appended == Append(evs, normalized)
    IN [events |-> appended, index |-> Len(appended) - 1]

\* MaxStored bounds the growth of self._events in a checked run.
AddEvent(Memberships, MaxStored) ==
    \E membership \in Memberships :
        LET r == add_event(universe, events, membership) IN
        /\ constructed
        /\ Len(events) < MaxStored
        /\ events' = r.events
        /\ last' = Called("add_event", [event |-> membership],
                          Return(r.index))
        /\ registered' = Append(registered,
                                [membership |-> membership, index |-> r.index])
        /\ UNCHANGED <<constructed, universe, probabilities, combined_events>>

----------------------------------------------------------------------------
(* skfuzzy, as called by events_sum, events_intersection and bernoulli *)

\* skfuzzy.fuzzy_op(x, a, y, b, op=np.add), the body of skfuzzy.fuzzy_add:
\*   zz = (x[:, None] + y[None, :]).ravel()     zz[t] = x[t div ny] + y[t mod ny]
\*   c  = fmin(a[:, None], b[None, :]).ravel()  c[s]  = min(a[s div nb], b[s mod nb])
\*   c  = c[argsort(zz)]
\*   one output point per distinct value of zz, ascending, whose membership
\*   is the maximum of c over the positions holding that value.
\* Indexing c by argsort(zz) raises IndexError when zz is longer than c.
fuzzy_add(x, a, y, b) ==
    LET ny == Len(y)
        nb == Len(b)
        T == 0..(Len(x) * ny - 1)
        zz(t) == x[(t \div ny) + 1] + y[(t % ny) + 1]
        c(t) == fmin(a[(t \div nb) + 1], b[(t % nb) + 1])
        z == SortedSeq({zz(t) : t \in T})
    IN IF Len(x) * ny > Len(a) * nb THEN Raise(ErrIndex)
       ELSE Return([z |-> z,
                    mfz |-> [k \in DOMAIN z |->
                               SetMax({c(t) : t \in {t2 \in T : zz(t2) = z[k]}})]])

\* skfuzzy.fuzzy_and(x, mfx, y, mfy) for x and y the same array: the
\* universes are not resampled and the result is np.fmin(mfx, mfy).
fuzzy_and(x, mfx, y, mfy) ==
    IF Len(mfx) # Len(mfy) THEN Raise(ErrShapes)
    ELSE Return([z |-> x,
                 mfz |-> [i \in DOMAIN mfx |-> fmin(mfx[i], mfy[i])]])

\* skfuzzy.fuzzy_not(mf) = 1 - mf
fuzzy_not(mf) == [i \in DOMAIN mf |-> MemberUnit - mf[i]]

----------------------------------------------------------------------------
(* FuzzyProbabilitiesCalculator.events_sum / events_intersection *)

\* The indices the comprehension keeps: `if idx < len(self._events)`.
kept_indices(evs, events_indices) ==
    SelectSeq(events_indices, LAMBDA idx : idx < Len(evs))

\* self._events[idx] for a kept idx: a negative idx counts from the end and
\* raises IndexError below -len.
selected_events(evs, events_indices) ==
    LET kept == kept_indices(evs, events_indices) IN
    IF \E k \in DOMAIN kept : kept[k] < -Len(evs) THEN Raise(ErrIndex)
    ELSE Return([k \in DOMAIN kept |->
                   IF kept[k] >= 0 THEN evs[kept[k] + 1]
                   ELSE evs[Len(evs) + kept[k] + 1]])

\* for event in selected_events[1:]: result = fuzzy_add(U, result, U, event)[1]
RECURSIVE sum_fold(_, _, _)
sum_fold(u, result, rest) ==
    IF rest = <<>> THEN Return(result)
    ELSE LET r == fuzzy_add(u, result, u, Head(rest)) IN
         IF ~r.ok THEN r ELSE sum_fold(u, r.result.mfz, Tail(rest))

\* for event in selected_events[1:]: result = fuzzy_and(U, result, U, event)[1]
RECURSIVE and_fold(_, _, _)
and_fold(u, result, rest) ==
    IF rest = <<>> THEN Return(result)
    ELSE LET r == fuzzy_and(u, result, u, Head(rest)) IN
         IF ~r.ok THEN r ELSE and_fold(u, r.result.mfz, Tail(rest))

events_sum(u, evs, events_indices) ==
    IF events_indices = <<>> THEN Raise(ErrNoIndex)
    ELSE LET sel == selected_events(evs, events_indices) IN
         IF ~sel.ok THEN sel
         ELSE IF Len(sel.result) = 1 THEN Return(sel.result[1])
         ELSE IF sel.result = <<>> THEN Raise(ErrIndex)
         ELSE sum_fold(u, sel.result[1], Tail(sel.result))

\* events_intersection with the loop of events_sum: fuzzy_add for fuzzy_and.
events_intersection_by_add(u, evs, events_indices) ==
    events_sum(u, evs, events_indices)

events_intersection(u, evs, events_indices) ==
    IF events_indices = <<>> THEN Raise(ErrNoIndex)
    ELSE LET sel == selected_events(evs, events_indices) IN
         IF ~sel.ok THEN sel
         ELSE IF Len(sel.result) = 1 THEN Return(sel.result[1])
         ELSE IF sel.result = <<>> THEN Raise(ErrIndex)
         ELSE and_fold(u, sel.result[1], Tail(sel.result))

Query == UNCHANGED <<constructed, universe, probabilities, events,
                     combined_events, registered>>

EventsSum(IndexLists) ==
    \E events_indices \in IndexLists :
        /\ constructed
        /\ last' = Called("events_sum", [events_indices |-> events_indices],
                          events_sum(universe, events, events_indices))
        /\ Query

EventsIntersection(IndexLists) ==
    \E events_indices \in IndexLists :
        /\ constructed
        /\ last' = Called("events_intersection",
                          [events_indices |-> events_indices],
                          events_intersection(universe, events, events_indices))
        /\ Query

----------------------------------------------------------------------------
(* FuzzyProbabilitiesCalculator.probability *)

\* probability with the dot product taken of the normalized event.
probability_of_normalized(u, probs, event) ==
    LET normalized == normalized_event(u, event) IN
    IF Len(normalized) # Len(probs.num) THEN Raise(ErrShapes)
    ELSE Return([num |-> np_dot(normalized, probs.num),
                 den |-> MemberUnit * probs.den])

\* `normalized` is computed and not used: np.dot takes the event as given,
\* and raises ValueError when its length is not that of the distribution.
probability(u, probs, event) ==
    LET normalized == normalized_event(u, event) IN
    IF Len(event) # Len(probs.num) THEN Raise(ErrShapes)
    ELSE Return([num |-> np_dot(event, probs.num),
                 den |-> MemberUnit * probs.den])

Probability(Memberships) ==
    \E event \in Memberships :
        /\ constructed
        /\ last' = Called("probability", [event |-> event],
                          probability(universe, probabilities, event))
        /\ Query

----------------------------------------------------------------------------
(* FuzzyProbabilitiesCalculator.fuzzy_probability *)

\* indices, = np.nonzero(normalized >= a), as 1-based positions
indices_ge(normalized, a) == {i \in DOMAIN normalized : normalized[i] >= a}

\* np.sum(self._probabilities[indices]): IndexError when an index is past
\* the end of the distribution.  The numerator over probs.den.
alpha_probability(probs, normalized, a) ==
    LET indices == indices_ge(normalized, a) IN
    IF \E i \in indices : i > Len(probs.num) THEN Raise(ErrIndex)
    ELSE Return(np_sum([k \in 1..Len(SortedSeq(indices)) |->
                          probs.num[SortedSeq(indices)[k]]]))

\* return np.array(probs), alphas
fuzzy_probability(u, probs, event) ==
    LET normalized == normalized_event(u, event)
        alphas == np_trim_zeros(np_unique(normalized))
        each == [k \in DOMAIN alphas |->
                   alpha_probability(probs, normalized, alphas[k])]
    IN IF \E k \in DOMAIN each : ~each[k].ok THEN Raise(ErrIndex)
       ELSE Return([probs |-> [k \in DOMAIN each |-> each[k].result],
                    alphas |-> alphas])

FuzzyProbability(Memberships) ==
    \E event \in Memberships :
        /\ constructed
        /\ last' = Called("fuzzy_probability", [event |-> event],
                          fuzzy_probability(universe, probabilities, event))
        /\ Query

----------------------------------------------------------------------------
(* FuzzyProbabilitiesCalculator.bernoulli *)

\* comb(success + failure, success) * success_prob ** success
\*                                  * failure_prob ** failure
\* The product is kept in its factors: the powers of the fixed-point
\* numerators do not fit the model checker's integers.
bernoulli(u, probs, event, success, failure) ==
    LET normalized == normalized_event(u, event)
        success_prob == probability(u, probs, normalized)
        failure_prob == probability(u, probs, fuzzy_not(normalized))
    IN IF ~success_prob.ok THEN success_prob
       ELSE IF ~failure_prob.ok THEN failure_prob
       ELSE Return([comb |-> math_comb(success + failure, success),
                    success_prob |-> success_prob.result,
                    success |-> success,
                    failure_prob |-> failure_prob.result,
                    failure |-> failure])

\* Trials: the <<success, failure>> pairs a client asks for.
Bernoulli(Memberships, Trials) ==
    \E event \in Memberships, trial \in Trials :
        /\ constructed
        /\ last' = Called("bernoulli",
                          [event |-> event, success |-> trial[1],
                           failure |-> trial[2]],
                          bernoulli(universe, probabilities, event,
                                    trial[1], trial[2]))
        /\ Query

----------------------------------------------------------------------------
(* The calls a client makes *)

\* The sequences over S of length 0..n.
SeqsUpTo(S, n) == UNION {[1..k -> S] : k \in 0..n}

\* The engine stores at most this many events in a checked run.
MaxEvents == 2

\* Lifecycle: one engine, and every operation on it.
Universes == {<<0>>, <<0, 1>>, <<1, 0>>, <<1, 1>>}
Distributions == {<<500000>>, <<500000, 500000>>}
Memberships == SeqsUpTo({0, 5}, 2)
IndexLists == SeqsUpTo(-1..2, 2) \cup [1..3 -> 0..1]
Trials == {<<2, 1>>, <<1, 0>>}

Next ==
    \/ Construct(Universes, Distributions)
    \/ AddEvent(Memberships, MaxEvents)
    \/ EventsSum(IndexLists)
    \/ EventsIntersection(IndexLists)
    \/ Probability(Memberships)
    \/ FuzzyProbability(Memberships)
    \/ Bernoulli(Memberships, Trials)

Spec == Init /\ [][Next]_vars

\* Construction and the array operations that store nothing, over wider
\* universes, distributions and membership values.
WideUniverses ==
    {<<>>, <<0>>, <<0, 0>>, <<0, 1>>, <<1, 0>>, <<0, 1, 2>>, <<2, 0, 1>>,
     <<0, 1, 0>>}
WideDistributions == SeqsUpTo({-1, 0, 499995, 500000, 1000001}, 3)
WideMemberships == SeqsUpTo({-5, 0, 5}, 3)

ArrayNext ==
    \/ Construct(WideUniverses, WideDistributions)
    \/ Probability(WideMemberships)
    \/ FuzzyProbability(WideMemberships)

ArraySpec == Init /\ [][ArrayNext]_vars

----------------------------------------------------------------------------
(* Vocabulary of the properties *)

\* The length-normalized event: exactly n values, the first Len(m) of them
\* those of m and zeros after them.
LengthNormalized(m, n) == [i \in 1..n |-> IF i <= Len(m) THEN m[i] ELSE 0]

\* f[1] + ... + f[n]
RECURSIVE Sigma(_, _)
Sigma(f, n) == IF n = 0 THEN 0 ELSE Sigma(f, n - 1) + f[n]

Reverse(s) == [k \in DOMAIN s |-> s[Len(s) + 1 - k]]

\* idx is an index of a stored event.
InBounds(idx) == 0 <= idx /\ idx < Len(events)

PairwiseDistinct(u) == \A i, j \in DOMAIN u : i # j => u[i] # u[j]

\* The engine's distribution has one value per universe point.
Aligned == Len(probabilities.num) = Len(universe)

----------------------------------------------------------------------------
(* C1 *)

\* C1: the k-th add_event call (k from 0) returned k, and in every state
\* reached afterwards, whatever was called in between, events_sum(k) and
\* events_intersection(k) return the length-normalized membership of that
\* k-th call: nothing stored is changed, removed or reordered.
RegistrationRoundTrip ==
    /\ Len(events) = Len(registered)
    /\ \A k \in DOMAIN registered :
        LET stored == LengthNormalized(registered[k].membership, Len(universe))
        IN /\ registered[k].index = k - 1
           /\ events_sum(universe, events, <<k - 1>>) = Return(stored)
           /\ events_intersection(universe, events, <<k - 1>>) = Return(stored)

\* Two registrations, the first padded and the second truncated to
\* different vectors, and a failed call after them.
RegistrationRoundTripWitness ==
    /\ Len(registered) = 2
    /\ Len(registered[1].membership) < Len(universe)
    /\ Len(registered[2].membership) > Len(universe)
    /\ events[1] # events[2]
    /\ last.op = "probability"
    /\ ~last.ok

----------------------------------------------------------------------------
(* C2 *)

\* C2: __init__ fails with the first of: the universe has a repeated
\* element; a probability is outside [0,1] or the sum is close to zero; the
\* sum is not close to 1 and normalize is false.  Otherwise it succeeds with
\* no events and a distribution whose sum is close to 1: the input as given
\* when its sum is close to 1, else each value over the sum.  A failed
\* construction leaves no engine.
ConstructionContract ==
    last.op = "init" =>
        LET u == last.arg.universe
            p == last.arg.probabilities
            total == Sigma(p, Len(p))
            stored == Sigma(probabilities.num, Len(probabilities.num))
        IN /\ ~last.ok => ~constructed
           /\ IF ~PairwiseDistinct(u)
              THEN ~last.ok /\ last.err = ErrUniverse
              ELSE IF \/ \E i \in DOMAIN p : p[i] < 0 \/ p[i] > ProbUnit
                      \/ np_isclose(total, 0, ProbUnit)
              THEN ~last.ok /\ last.err = ErrProbabilities
              ELSE IF ~np_isclose(total, ProbUnit, ProbUnit)
                      /\ ~last.arg.normalize
              THEN ~last.ok /\ last.err = ErrNormalized
              ELSE /\ last.ok
                   /\ constructed
                   /\ universe = u
                   /\ events = <<>>
                   /\ probabilities.num = p
                   /\ probabilities.den =
                        IF np_isclose(total, ProbUnit, ProbUnit)
                        THEN ProbUnit ELSE total
                   /\ np_isclose(stored, probabilities.den, probabilities.den)

\* A distribution over three points that had to be divided by its sum.
ConstructionContractWitness ==
    /\ last.op = "init"
    /\ last.ok
    /\ Len(universe) = 3
    /\ Len(probabilities.num) = 3
    /\ probabilities.den # ProbUnit
    /\ probabilities.num[1] # probabilities.num[2]

----------------------------------------------------------------------------
(* C3 *)

----------------------------------------------------------------------------
(* C7 *)

\* C7: events_intersection over two or more indices of stored events
\* returns one value per universe point, the minimum of the selected
\* events' values at that point; the order of the indices does not matter,
\* and the stored events are left as they were.
IntersectionIsPointwiseMin ==
    [][(/\ last'.op = "events_intersection"
        /\ Len(last'.arg.events_indices) >= 2
        /\ \A k \in DOMAIN last'.arg.events_indices :
              InBounds(last'.arg.events_indices[k])) =>
           LET indices == last'.arg.events_indices IN
           /\ last'.ok
           /\ Len(last'.result.mf) = Len(universe)
           /\ \A i \in 1..Len(universe) :
                last'.result.mf[i] =
                    SetMin({events[indices[k] + 1][i] : k \in DOMAIN indices})
           /\ events_intersection(universe, events, Reverse(indices))
                = Return(last'.result.mf)
           /\ events' = events]_vars

\* Three indices over two stored events, neither of which is below the
\* other at every point.
IntersectionIsPointwiseMinWitness ==
    /\ last.op = "events_intersection"
    /\ last.ok
    /\ last.arg.events_indices = <<0, 1, 0>>
    /\ Len(events) = 2
    /\ events[1] = <<0, 5>>
    /\ events[2] = <<5, 0>>
    /\ last.result.mf = <<0, 0>>

----------------------------------------------------------------------------
(* C4 *)

\* C4: add_event, probability, fuzzy_probability and bernoulli take an event
\* of any length: each succeeds and gives what it gives for the
\* length-normalized event.  Stated for the engines whose distribution has
\* one value per universe point.
ToleratesAnyLength ==
    (constructed /\ Aligned) =>
        LET n == Len(universe) IN
        /\ last.op = "add_event" =>
             /\ last.ok
             /\ events[Len(events)] = LengthNormalized(last.arg.event, n)
        /\ last.op = "probability" =>
             /\ last.ok
             /\ Return(last.result) =
                  probability(universe, probabilities,
                              LengthNormalized(last.arg.event, n))
        /\ last.op = "fuzzy_probability" =>
             /\ last.ok
             /\ Return(last.result) =
                  fuzzy_probability(universe, probabilities,
                                    LengthNormalized(last.arg.event, n))
        /\ last.op = "bernoulli" =>
             /\ last.ok
             /\ Return(last.result) =
                  bernoulli(universe, probabilities,
                            LengthNormalized(last.arg.event, n),
                            last.arg.success, last.arg.failure)

----------------------------------------------------------------------------
(* C5 *)

\* C5: events_sum and events_intersection fail only when called with no
\* index; with one or more indices they raise nothing, and when exactly one
\* of the indices is within the bounds of the stored events they return
\* that stored event.
CombineFailsOnlyWithoutIndices ==
    last.op \in {"events_sum", "events_intersection"} =>
        LET indices == last.arg.events_indices
            valid == SelectSeq(indices, InBounds)
        IN /\ last.ok <=> indices # <<>>
           /\ Len(valid) = 1 => last.result.mf = events[valid[1] + 1]

----------------------------------------------------------------------------
(* C6 *)

\* C6: fuzzy_probability returns as many probabilities as alpha levels, the
\* alpha levels strictly ascending, the probability of each the sum of the
\* distribution over the universe points whose membership in the
\* length-normalized event is at least that alpha, and so never below the
\* probability of the next alpha.
AlphaCutProbabilities ==
    (constructed /\ last.op = "fuzzy_probability") =>
        LET normalized == LengthNormalized(last.arg.event, Len(universe))
            probs == last.result.probs
            alphas == last.result.alphas
        IN /\ last.ok
           /\ Len(probs) = Len(alphas)
           /\ \A k \in 1..(Len(alphas) - 1) : alphas[k] < alphas[k + 1]
           /\ \A k \in DOMAIN alphas :
                probs[k] =
                    Sigma([i \in DOMAIN normalized |->
                             IF normalized[i] >= alphas[k]
                             THEN probabilities.num[i] ELSE 0],
                          Len(normalized))
           /\ \A k \in 1..(Len(probs) - 1) : probs[k] >= probs[k + 1]

\* The same, for the engines whose distribution has one value per universe
\* point.
AlphaCutProbabilitiesAligned == Aligned => AlphaCutProbabilities

----------------------------------------------------------------------------
(* C8 *)

\* C8: events_sum over two or more indices of stored events returns a
\* membership vector over the universe: one value per universe point.
SumIsOverTheUniverse ==
    (/\ last.op = "events_sum"
     /\ Len(last.arg.events_indices) >= 2
     /\ \A k \in DOMAIN last.arg.events_indices :
           InBounds(last.arg.events_indices[k])) =>
        /\ last.ok
        /\ Len(last.result.mf) = Len(universe)

----------------------------------------------------------------------------
(* C9 *)

\* C9: the stored distribution of a constructed engine has one value per
\* universe point.
DistributionAlignedWithUniverse == constructed => Aligned

\* The other half of C9: no operation changes the universe or the
\* distribution of a constructed engine.
UniverseAndDistributionFixed ==
    [][constructed =>
         UNCHANGED <<constructed, universe, probabilities>>]_vars

----------------------------------------------------------------------------
(* C10 *)

\* C10: the alpha levels fuzzy_probability returns are the distinct non-zero
\* values of the length-normalized event in ascending order, each once and
\* none of them zero; an all-zero event gives two empty sequences.
AlphasAreTheNonZeroValues ==
    (last.op = "fuzzy_probability" /\ last.ok) =>
        LET normalized == LengthNormalized(last.arg.event, Len(universe))
            nonzero == {normalized[i] : i \in DOMAIN normalized} \ {0}
            alphas == last.result.alphas
        IN /\ {alphas[k] : k \in DOMAIN alphas} = nonzero
           /\ Len(alphas) = Cardinality(nonzero)
           /\ \A k \in 1..(Len(alphas) - 1) : alphas[k] < alphas[k + 1]
           /\ nonzero = {} => alphas = <<>> /\ last.result.probs = <<>>

\* The same, for the events without a negative membership value.
AlphasOfNonNegativeEvents ==
    (/\ last.op = "fuzzy_probability"
     /\ \A i \in DOMAIN last.arg.event : last.arg.event[i] >= 0) =>
        AlphasAreTheNonZeroValues

====
